---- MODULE Spec2Model ----
(***************************************************************************)
(* Model of the weather tool of src/main.py: the place normaliser          *)
(* (_clean_place), the coordinate parser (_parse_latlon), the geocoding    *)
(* resolver (_geocode) and the orchestrator (get_weather_forecast).        *)
(*                                                                         *)
(* A Python str is a sequence of one-character strings; a float is an      *)
(* exact decimal <<mantissa, exponent>> (value = mantissa / 10^exponent,   *)
(* trailing zeros removed); None of an optional str is the string "None".  *)
(* One behaviour is one invocation of the tool; the two HTTP services are  *)
(* the environment and answer nondeterministically.                        *)
(***************************************************************************)
EXTENDS Integers, Sequences, FiniteSets, TLC

VARIABLES
    origPlace,   \* the `place` argument as the caller passed it
    place,       \* the local `place` of get_weather_forecast
    days, units, lang,
    pc,          \* position of the invocation
    cleaned,     \* _geocode: cleaned
    candidates,  \* _geocode: candidates
    queue,       \* _geocode: the list the for loop iterates over
    idx,         \* _geocode: position of the for loop in queue
    tried,       \* _geocode: tried
    loc,         \* get_weather_forecast: loc
    geoLog,      \* geocoding requests issued, in order
    geoResp,     \* geocoding responses received, in order
    inflight,    \* HTTP requests issued and not yet answered
    fcLog,       \* forecast requests issued, in order
    fcResp,      \* forecast responses received, in order
    result,      \* the returned ForecastResult
    err          \* the raised exception

vars == <<origPlace, place, days, units, lang, pc, cleaned, candidates, queue,
          idx, tried, loc, geoLog, geoResp, inflight, fcLog, fcResp, result, err>>

-----------------------------------------------------------------------------
(* Bounds of the model *)

\* longest place text enumerated over Alphabet
MaxLen == 3
\* longest `time` column of a forecast payload
MaxDaily == 2

\* the characters the enumerated place texts are made of
Alphabet == {"a", "1", " ", ",", "!", "-"}

\* <<length of the time column, length of the one column that differs>>
Skewed == {<<n, m>> \in (0..MaxDaily) \X (0..(MaxDaily + 1)) : m = n - 1 \/ m = n + 1}

-----------------------------------------------------------------------------
(* Characters *)

Letters == {"a", "b", "C", "D", "e", "F", "g", "h", "i", "K", "l", "n", "o",
            "p", "P", "Q", "r", "R", "s", "w", "x", "y", "z"}
Digits == {"0", "1", "2", "3", "4", "5", "6", "7", "8", "9"}
\* \s of the regular expressions and the characters str.strip() removes
Whitespace == {" ", "\t", "\n"}
\* \w of the regular expressions
WordChars == Letters \cup Digits \cup {"_"}

DigitVal(c) ==
    CASE c = "0" -> 0 [] c = "1" -> 1 [] c = "2" -> 2 [] c = "3" -> 3
      [] c = "4" -> 4 [] c = "5" -> 5 [] c = "6" -> 6 [] c = "7" -> 7
      [] c = "8" -> 8 [] c = "9" -> 9

Range(s) == {s[i] : i \in 1..Len(s)}

-----------------------------------------------------------------------------
(* String primitives *)

\* s with its leading characters of S removed
RECURSIVE LStrip(_, _)
LStrip(s, S) ==
    IF s # <<>> /\ Head(s) \in S THEN LStrip(Tail(s), S) ELSE s

\* s with its trailing characters of S removed
RECURSIVE RStrip(_, _)
RStrip(s, S) ==
    IF s # <<>> /\ s[Len(s)] \in S THEN RStrip(SubSeq(s, 1, Len(s) - 1), S) ELSE s

\* str.strip()
strip(s) == RStrip(LStrip(s, Whitespace), Whitespace)

\* re.sub(r"\s+", " ", s): every maximal run of whitespace becomes one space
RECURSIVE CollapseWs(_)
CollapseWs(s) ==
    IF s = <<>> THEN <<>>
    ELSE IF Head(s) \in Whitespace
         THEN <<" ">> \o CollapseWs(LStrip(Tail(s), Whitespace))
         ELSE <<Head(s)>> \o CollapseWs(Tail(s))

\* index of the first occurrence of c in s, 0 when there is none
IndexOf(s, c) ==
    IF c \in Range(s) THEN CHOOSE i \in 1..Len(s) : s[i] = c /\ \A j \in 1..(i - 1) : s[j] # c
    ELSE 0

\* s.split(",")[0]
BeforeFirstComma(s) ==
    IF IndexOf(s, ",") = 0 THEN s ELSE SubSeq(s, 1, IndexOf(s, ",") - 1)

\* a substitution that deletes the punctuation instead of replacing it
PunctToSpace_Deleting(s) ==
    SelectSeq(s, LAMBDA ch : ch \in WordChars \cup Whitespace \cup {"-", "'"})

\* re.sub(r"[^\w\s\-']", " ", s)
PunctToSpace(s) ==
    [i \in 1..Len(s) |->
        IF s[i] \in WordChars \cup Whitespace \cup {"-", "'"} THEN s[i] ELSE " "]

\* sep.join(xs)
RECURSIVE Join(_, _)
Join(xs, sep) ==
    IF xs = <<>> THEN <<>>
    ELSE IF Len(xs) = 1 THEN xs[1]
    ELSE xs[1] \o sep \o Join(Tail(xs), sep)

-----------------------------------------------------------------------------
(* _clean_place *)

_clean_place(s) == RStrip(strip(CollapseWs(s)), {","} \cup Whitespace)

-----------------------------------------------------------------------------
(* _parse_latlon *)

AllDigits(x) == x # <<>> /\ \A i \in 1..Len(x) : x[i] \in Digits

\* \d+(?:\.\d+)?
IsUnsigned(x) ==
    \/ AllDigits(x)
    \/ \E k \in 2..(Len(x) - 1) :
          /\ x[k] = "."
          /\ AllDigits(SubSeq(x, 1, k - 1))
          /\ AllDigits(SubSeq(x, k + 1, Len(x)))

\* [+-]?\d+(?:\.\d+)?
IsNumber(x) ==
    \/ IsUnsigned(x)
    \/ x # <<>> /\ Head(x) \in {"+", "-"} /\ IsUnsigned(Tail(x))

\* \s*[, ]\s*
IsSeparator(x) ==
    \E k \in 1..Len(x) :
        /\ x[k] \in {",", " "}
        /\ \A m \in 1..Len(x) : m # k => x[m] \in Whitespace

RECURSIVE DigitsValue(_)
DigitsValue(x) ==
    IF x = <<>> THEN 0 ELSE 10 * DigitsValue(SubSeq(x, 1, Len(x) - 1)) + DigitVal(x[Len(x)])

RECURSIVE Normalize(_)
Normalize(f) ==
    IF f[2] > 0 /\ f[1] % 10 = 0 THEN Normalize(<<f[1] \div 10, f[2] - 1>>) ELSE f

\* float(x) of a string matching [+-]?\d+(?:\.\d+)?
float(x) ==
    LET neg  == Head(x) = "-"
        body == IF Head(x) \in {"+", "-"} THEN Tail(x) ELSE x
        dot  == IndexOf(body, ".")
        ip   == IF dot = 0 THEN body ELSE SubSeq(body, 1, dot - 1)
        fp   == IF dot = 0 THEN <<>> ELSE SubSeq(body, dot + 1, Len(body))
        mag  == DigitsValue(ip \o fp)
    IN  Normalize(<<IF neg THEN 0 - mag ELSE mag, Len(fp)>>)

\* the (group 1, group 2) splits of s that the pattern admits
LatLonSplits(s) ==
    LET t == strip(s)
    IN  {<<SubSeq(t, 1, i), SubSeq(t, j + 1, Len(t))>> :
            <<i, j>> \in {p \in (1..Len(t)) \X (1..Len(t)) :
                            /\ p[1] < p[2]
                            /\ IsNumber(SubSeq(t, 1, p[1]))
                            /\ IsSeparator(SubSeq(t, p[1] + 1, p[2]))
                            /\ IsNumber(SubSeq(t, p[2] + 1, Len(t)))}}

\* <<>> stands for None (both are false in `if ll:`)
_parse_latlon(s) ==
    IF LatLonSplits(s) = {} THEN <<>>
    ELSE LET m == CHOOSE g \in LatLonSplits(s) : TRUE
         IN  <<float(m[1]), float(m[2])>>

-----------------------------------------------------------------------------
(* _geocode: candidate queries *)

\* a candidate list with one more fallback, the word characters of the text
Candidates_Extra(c) ==
    <<c>>
    \o (IF "," \in Range(c) THEN <<strip(BeforeFirstComma(c))>> ELSE <<>>)
    \o <<strip(PunctToSpace(c))>>
    \o <<SelectSeq(c, LAMBDA ch : ch \in WordChars)>>

\* candidates, as lines 41-45 build it
Candidates(c) ==
    <<c>>
    \o (IF "," \in Range(c) THEN <<strip(BeforeFirstComma(c))>> ELSE <<>>)
    \o <<strip(PunctToSpace(c))>>

\* [c for c in candidates if c and c not in tried], for the value tr of tried
\* at the time the comprehension is evaluated
LoopList(cands, tr) ==
    SelectSeq(cands, LAMBDA c : c # <<>> /\ c \notin Range(tr))

-----------------------------------------------------------------------------
(* The HTTP services *)

None == "None"
NoValue == [none |-> TRUE]

\* a status check that lets client errors through
IsSuccess_Below500(status) == status < 500

\* r.raise_for_status() does not raise
IsSuccess(status) == status \in 200..299

Copenhagen ==
    [name |-> <<"C", "o", "p", "e", "n", "h", "a", "g", "e", "n">>,
     country |-> "Denmark", admin1 |-> "Capital Region",
     latitude |-> <<55676, 3>>, longitude |-> <<12568, 3>>]
Paris ==
    [name |-> <<"P", "a", "r", "i", "s">>,
     country |-> "France", admin1 |-> "Ile-de-France",
     latitude |-> <<48853, 3>>, longitude |-> <<2349, 3>>]

\* what the geocoding service may answer to one lookup
GeoResponses ==
    {[status |-> 500, results |-> <<>>],
     [status |-> 404, results |-> <<>>],
     [status |-> 200, results |-> <<>>],
     [status |-> 200, results |-> <<Copenhagen>>],
     [status |-> 200, results |-> <<Paris, Copenhagen>>]}

\* a column of n values of the forecast payload
Column(base, n) == [i \in 1..n |-> base + i]

ForecastPayload(st, nt, nmax, nmin, npr, nwc) ==
    [status |-> st,
     timezone |-> "Europe/Copenhagen",
     daily_units |-> "units",
     daily |-> [time |-> Column(0, nt),
                temperature_2m_max |-> Column(100, nmax),
                temperature_2m_min |-> Column(200, nmin),
                precipitation_sum |-> Column(300, npr),
                weathercode |-> Column(400, nwc)]]

\* what the forecast service may answer: a failure, or a payload whose five
\* columns have the same length or one column one shorter or longer than the rest
ForecastResponses ==
    {ForecastPayload(500, 0, 0, 0, 0, 0)}
    \cup {ForecastPayload(200, n, n, n, n, n) : n \in 0..MaxDaily}
    \cup {ForecastPayload(200, n, m, n, n, n) : <<n, m>> \in Skewed}
    \cup {ForecastPayload(200, n, n, m, n, n) : <<n, m>> \in Skewed}
    \cup {ForecastPayload(200, n, n, n, m, n) : <<n, m>> \in Skewed}
    \cup {ForecastPayload(200, n, n, n, n, m) : <<n, m>> \in Skewed}

-----------------------------------------------------------------------------
(* get_weather_forecast: the arguments *)

MinDays == 1
MaxDays == 16
MinLangLen == 2
MaxLangLen == 5

\* constraints that accept days = 0 and a one-letter lang
ValidArgs_OffByOne(d, u, l) ==
    /\ d >= MinDays - 1 /\ d <= MaxDays + 1
    /\ u \in {"C", "F"}
    /\ Len(l) >= MinLangLen - 1 /\ Len(l) <= MaxLangLen

\* the Field constraints of the tool's parameters
ValidArgs(d, u, l) ==
    /\ d >= MinDays /\ d <= MaxDays
    /\ u \in {"C", "F"}
    /\ Len(l) >= MinLangLen /\ Len(l) <= MaxLangLen

\* "celsius" if units.upper() == "C" else "fahrenheit"
TempUnit(u) == IF u \in {"C", "c"} THEN "celsius" ELSE "fahrenheit"

-----------------------------------------------------------------------------
(* Reshaping the forecast payload *)

Columns(d) ==
    <<d.temperature_2m_max, d.temperature_2m_min, d.precipitation_sum, d.weathercode>>

\* some index of range(len(times)) is out of range for another column
RaisesIndexError(d) ==
    \E k \in 1..4 : Len(Columns(d)[k]) < Len(d.time)

\* the list `daily` built by the loop over range(len(times))
Reshape(d) ==
    [i \in 1..Len(d.time) |->
        [date |-> d.time[i],
         t_max |-> d.temperature_2m_max[i],
         t_min |-> d.temperature_2m_min[i],
         precipitation_sum |-> d.precipitation_sum[i],
         weathercode |-> d.weathercode[i]]]

-----------------------------------------------------------------------------
(* Inputs *)

Str(k) == [1..k -> Alphabet]

ExCoordComma == <<"5", "5", ".", "6", "7", "6", ",", "1", "2", ".", "5", "6", "8">>
ExCoordCommaSpace ==
    <<"5", "5", ".", "6", "7", "6", ",", " ", "1", "2", ".", "5", "6", "8">>
ExCoordSpace == <<"5", "5", ".", "6", "7", "6", " ", "1", "2", ".", "5", "6", "8">>
ExCoordSigned == <<" ", "-", "1", ".", "5", "0", " ", ",", "\t", "+", "2", ",">>
ExCopenhagenDK == <<"C", "o", "p", "e", "n", "h", "a", "g", "e", "n", ",", " ", "D", "K">>
ExParisFR == <<"P", "a", "r", "i", "s", ",", " ", "F", "R", "!", "!">>
ExParis == <<"P", "a", "r", "i", "s">>
ExQwzxylopolis == <<"Q", "w", "z", "x", "y", "l", "o", "p", "o", "l", "i", "s">>
ExMessy == <<" ", "P", "a", "r", "i", "s", " ", " ", ",", "\t", "F", "R", " ", ",", " ">>

Examples ==
    {ExCoordComma, ExCoordCommaSpace, ExCoordSpace, ExCoordSigned, ExCopenhagenDK,
     ExParisFR, ExParis, ExQwzxylopolis, ExMessy}

Places == UNION {Str(k) : k \in 0..MaxLen} \cup Examples

LangEn == <<"e", "n">>
LangDaDK == <<"d", "a", "-", "D", "K">>

\* (days, units, lang): the ends of the accepted ranges and values just
\* outside them
Options ==
    {<<MinDays, "F", LangDaDK>>, <<MaxDays, "C", LangEn>>,
     <<MinDays - 1, "C", LangEn>>, <<MaxDays + 1, "F", LangEn>>,
     <<3, "C", <<"e">>>>, <<3, "F", LangDaDK \o <<"x">>>>}

-----------------------------------------------------------------------------
(* The invocation *)

Init ==
    /\ origPlace \in Places
    /\ place = origPlace
    /\ \E o \in Options : days = o[1] /\ units = o[2] /\ lang = o[3]
    /\ pc = "call"
    /\ cleaned = <<>>
    /\ candidates = <<>>
    /\ queue = <<>>
    /\ idx = 0
    /\ tried = <<>>
    /\ loc = NoValue
    /\ geoLog = <<>>
    /\ geoResp = <<>>
    /\ inflight = 0
    /\ fcLog = <<>>
    /\ fcResp = <<>>
    /\ result = NoValue
    /\ err = NoValue

\* the tool's arguments are validated against their Field constraints before
\* the body of get_weather_forecast runs
Validate ==
    /\ pc = "call"
    /\ IF ValidArgs(days, units, lang)
       THEN pc' = "body" /\ err' = err
       ELSE pc' = "failed" /\ err' = [kind |-> "ValidationError"]
    /\ UNCHANGED <<origPlace, place, days, units, lang, cleaned, candidates, queue,
                   idx, tried, loc, geoLog, geoResp, inflight, fcLog, fcResp, result>>

\* place = _clean_place(place)
CleanPlace ==
    /\ pc = "body"
    /\ place' = _clean_place(place)
    /\ pc' = "geocode"
    /\ UNCHANGED <<origPlace, days, units, lang, cleaned, candidates, queue, idx,
                   tried, loc, geoLog, geoResp, inflight, fcLog, fcResp, result, err>>

\* a resolver that swaps the parsed pair
CoordLocation_Swapped(p, ll) ==
    [name |-> p, country |-> None, admin1 |-> None,
     latitude |-> ll[2], longitude |-> ll[1]]

\* the location _geocode returns for a coordinate pair
CoordLocation(p, ll) ==
    [name |-> p, country |-> None, admin1 |-> None,
     latitude |-> ll[1], longitude |-> ll[2]]

\* _geocode(place, lang) up to its first await: the coordinate short-circuit,
\* or the candidate list and the list the loop iterates over
GeocodeEnter ==
    /\ pc = "geocode"
    /\ cleaned' = _clean_place(place)
    /\ LET ll == _parse_latlon(cleaned')
       IN  IF ll # <<>>
           THEN /\ loc' = CoordLocation(place, ll)
                /\ pc' = "forecast"
                /\ UNCHANGED <<candidates, queue, idx>>
           ELSE /\ candidates' = Candidates(cleaned')
                /\ queue' = LoopList(candidates', <<>>)
                /\ idx' = 1
                /\ pc' = "loop"
                /\ loc' = loc
    /\ tried' = <<>>
    /\ UNCHANGED <<origPlace, place, days, units, lang, geoLog, geoResp, inflight,
                   fcLog, fcResp, result, err>>

\* the request of one geocoding lookup
GeoQuery(q, l) ==
    [name |-> q, count |-> 1, language |-> l, format |-> "json", accept_language |-> l]

\* the loop takes its next element q, appends it to tried and sends the lookup
GeoRequest ==
    /\ pc = "loop"
    /\ idx <= Len(queue)
    /\ tried' = Append(tried, queue[idx])
    /\ geoLog' = Append(geoLog, GeoQuery(queue[idx], lang))
    /\ inflight' = inflight + 1
    /\ pc' = "geo_wait"
    /\ UNCHANGED <<origPlace, place, days, units, lang, cleaned, candidates, queue,
                   idx, loc, geoResp, fcLog, fcResp, result, err>>

\* the loop is exhausted: raise ValueError(f"No location found for {place!r}
\* (tried: {', '.join(tried)}).")
GeoNotFound ==
    /\ pc = "loop"
    /\ idx > Len(queue)
    /\ err' = [kind |-> "ValueError", place |-> place,
               tried |-> Join(tried, <<",", " ">>)]
    /\ pc' = "failed"
    /\ UNCHANGED <<origPlace, place, days, units, lang, cleaned, candidates, queue,
                   idx, tried, loc, geoLog, geoResp, inflight, fcLog, fcResp, result>>

\* a resolver that returns the last result instead of the first
FirstResult_Last(r) == r.results[Len(r.results)]

\* data["results"][0]
FirstResult(r) == r.results[1]

\* the lookup is answered: raise_for_status() raises, or the first result is
\* returned, or the loop goes on
GeoResponse ==
    /\ pc = "geo_wait"
    /\ \E r \in GeoResponses :
          /\ geoResp' = Append(geoResp, r)
          /\ inflight' = inflight - 1
          /\ IF ~IsSuccess(r.status)
             THEN /\ err' = [kind |-> "HTTPStatusError", status |-> r.status]
                  /\ pc' = "failed"
                  /\ UNCHANGED <<loc, idx>>
             ELSE IF r.results # <<>>
             THEN /\ loc' = FirstResult(r)
                  /\ pc' = "forecast"
                  /\ UNCHANGED <<err, idx>>
             ELSE /\ idx' = idx + 1
                  /\ pc' = "loop"
                  /\ UNCHANGED <<err, loc>>
    /\ UNCHANGED <<origPlace, place, days, units, lang, cleaned, candidates, queue,
                   tried, geoLog, fcLog, fcResp, result>>

\* params of the forecast request
ForecastParams(l, u, d) ==
    [latitude |-> l.latitude, longitude |-> l.longitude,
     daily |-> "weathercode,temperature_2m_max,temperature_2m_min,precipitation_sum",
     timezone |-> "auto", temperature_unit |-> TempUnit(u), forecast_days |-> d]

\* _geocode has returned loc: send the forecast request
ForecastRequest ==
    /\ pc = "forecast"
    /\ fcLog' = Append(fcLog, ForecastParams(loc, units, days))
    /\ inflight' = inflight + 1
    /\ pc' = "fc_wait"
    /\ UNCHANGED <<origPlace, place, days, units, lang, cleaned, candidates, queue,
                   idx, tried, loc, geoLog, geoResp, fcResp, result, err>>

\* the dict get_weather_forecast returns
ForecastResult(p, l, data) ==
    [query |-> p,
     location |-> [name |-> l.name, country |-> l.country, admin1 |-> l.admin1,
                   latitude |-> l.latitude, longitude |-> l.longitude,
                   timezone |-> data.timezone],
     units |-> data.daily_units,
     daily |-> Reshape(data.daily)]

\* the forecast is answered: raise_for_status() raises, or an index is out of
\* range, or the result is returned
ForecastResponse ==
    /\ pc = "fc_wait"
    /\ \E data \in ForecastResponses :
          /\ fcResp' = Append(fcResp, data)
          /\ inflight' = inflight - 1
          /\ IF ~IsSuccess(data.status)
             THEN /\ err' = [kind |-> "HTTPStatusError", status |-> data.status]
                  /\ pc' = "failed"
                  /\ result' = result
             ELSE IF RaisesIndexError(data.daily)
             THEN /\ err' = [kind |-> "IndexError"]
                  /\ pc' = "failed"
                  /\ result' = result
             ELSE /\ result' = ForecastResult(place, loc, data)
                  /\ pc' = "done"
                  /\ err' = err
    /\ UNCHANGED <<origPlace, place, days, units, lang, cleaned, candidates, queue,
                   idx, tried, loc, geoLog, geoResp, fcLog>>

Next ==
    \/ Validate
    \/ CleanPlace
    \/ GeocodeEnter
    \/ GeoRequest
    \/ GeoNotFound
    \/ GeoResponse
    \/ ForecastRequest
    \/ ForecastResponse

Spec == Init /\ [][Next]_vars

-----------------------------------------------------------------------------
(* Properties *)

CleanedInput == _clean_place(origPlace)
IsCoordinateText == _parse_latlon(CleanedInput) # <<>>
\* the non-empty candidates of the input, in the order they are built
InputCandidates == LoopList(Candidates(CleanedInput), <<>>)
IsHit(r) == r.status \in 200..299 /\ r.results # <<>>
IsEmpty(r) == r.status \in 200..299 /\ r.results = <<>>
Resolved == pc \in {"forecast", "fc_wait", "done"}
\* place has been normalized / _geocode has computed cleaned
Normalized == pc \in {"geocode", "loop", "geo_wait", "forecast", "fc_wait", "done"}
InGeocode == pc \in {"loop", "geo_wait", "forecast", "fc_wait", "done"}

\* C1: the lookups issued are the candidates in list order; a lookup that yields
\* at least one result is the last lookup issued, every lookup before it yielded
\* none, and the resolver's location is the first result of that lookup.
C1_ResolverFallback ==
    /\ Len(geoLog) <= Len(InputCandidates)
    /\ \A i \in 1..Len(geoLog) : geoLog[i].name = InputCandidates[i]
    /\ \A i \in 1..(Len(geoLog) - 1) : geoResp[i].results = <<>>
    /\ \A i \in 1..Len(geoResp) :
          IsHit(geoResp[i]) =>
             /\ Len(geoLog) = i
             /\ pc \notin {"loop", "geo_wait"}
             /\ loc = geoResp[i].results[1]

\* first candidate empty, second a hit, third never attempted
C1_Witness ==
    /\ pc = "done"
    /\ Len(InputCandidates) = 3
    /\ Len(geoLog) = 2
    /\ Len(geoResp) = 2
    /\ IsEmpty(geoResp[1])
    /\ geoResp[2].results = <<Paris, Copenhagen>>
    /\ result.location.name = Paris.name

\* C2: for a text matching the coordinate pattern no geocoding lookup is issued,
\* and the location has the first number as latitude, the second as longitude,
\* and neither country nor admin region.
C2_ShortCircuit ==
    /\ IsCoordinateText =>
          /\ geoLog = <<>>
          /\ Resolved =>
                /\ loc.latitude = _parse_latlon(CleanedInput)[1]
                /\ loc.longitude = _parse_latlon(CleanedInput)[2]
                /\ loc.country = None
                /\ loc.admin1 = None
                /\ \A i \in 1..Len(fcLog) :
                      /\ fcLog[i].latitude = loc.latitude
                      /\ fcLog[i].longitude = loc.longitude
          /\ pc = "done" =>
                /\ result.location.latitude = loc.latitude
                /\ result.location.longitude = loc.longitude
    /\ origPlace \in {ExCoordComma, ExCoordCommaSpace, ExCoordSpace} /\ Resolved =>
          /\ loc.latitude = <<55676, 3>>
          /\ loc.longitude = <<12568, 3>>
    /\ origPlace = ExCoordSigned /\ Resolved =>
          /\ loc.latitude = <<0 - 15, 1>>
          /\ loc.longitude = <<2, 0>>

C2_Witness ==
    /\ origPlace = ExCoordComma
    /\ pc = "done"
    /\ geoLog = <<>>
    /\ result.location.latitude = <<55676, 3>>
    /\ result.location.longitude = <<12568, 3>>

\* C3: a lookup answered with a non-success status ends the invocation with that
\* transport error, it is the last lookup, and no forecast request is issued;
\* every lookup followed by another one was answered with success and no results.
C3_TransportErrorAborts ==
    /\ \A i \in 1..Len(geoResp) :
          geoResp[i].status \notin 200..299 =>
             /\ pc = "failed"
             /\ err = [kind |-> "HTTPStatusError", status |-> geoResp[i].status]
             /\ Len(geoLog) = i
             /\ fcLog = <<>>
    /\ \A i \in 1..(Len(geoLog) - 1) : IsEmpty(geoResp[i])

\* the second lookup fails with 404 while a third candidate is left
C3_Witness ==
    /\ Len(InputCandidates) = 3
    /\ Len(geoResp) = 2
    /\ IsEmpty(geoResp[1])
    /\ geoResp[2].status = 404
    /\ pc = "failed"

\* the Candidate Generator's output as the claim C4 describes it: ordered,
\* de-duplicated (first occurrence kept), without empty strings
RECURSIVE Dedupe(_)
Dedupe(xs) ==
    IF xs = <<>> THEN <<>>
    ELSE LET init == Dedupe(SubSeq(xs, 1, Len(xs) - 1))
             last == xs[Len(xs)]
         IN  IF last = <<>> \/ last \in Range(init) THEN init ELSE Append(init, last)

\* C4: a not-found error carries the original input text and the list of the
\* de-duplicated candidates, in order, and no forecast request was issued.
C4_TotalFailure ==
    (pc = "failed" /\ err.kind = "ValueError") =>
        /\ err.place = origPlace
        /\ tried = Dedupe(Candidates(CleanedInput))
        /\ err.tried = Join(Dedupe(Candidates(CleanedInput)), <<",", " ">>)
        /\ fcLog = <<>>

\* C5: with days outside [1,16] or lang of length outside [2,5] the invocation
\* ends in a validation error and issues neither a lookup nor a forecast request.
C5_ValidationFirst ==
    (days \notin 1..16 \/ Len(lang) \notin 2..5) =>
        /\ pc \in {"call", "failed"}
        /\ pc = "failed" => err = [kind |-> "ValidationError"]
        /\ geoLog = <<>>
        /\ fcLog = <<>>
        /\ inflight = 0

C5_Witness ==
    /\ days = 17
    /\ pc = "failed"
    /\ err.kind = "ValidationError"
    /\ ~IsCoordinateText

\* C6: the lookups issued, and the tried list, hold no empty string and no
\* string twice.
C6_EachCandidateOnce ==
    /\ \A i, j \in 1..Len(geoLog) :
          /\ geoLog[i].name # <<>>
          /\ i # j => geoLog[i].name # geoLog[j].name
    /\ \A i, j \in 1..Len(tried) :
          /\ tried[i] # <<>>
          /\ i # j => tried[i] # tried[j]

\* C7: the query field of a returned result is the place as the caller passed it.
C7_QueryIsOriginal ==
    pc = "done" => result.query = origPlace

SameLengths(d) ==
    \A k \in 1..4 : Len(Columns(d)[k]) = Len(d.time)

\* C8: a successful forecast response whose columns differ in length ends the
\* invocation in an error; no result is returned.
C8_FailFastOnMismatch ==
    \A i \in 1..Len(fcResp) :
        (fcResp[i].status \in 200..299 /\ ~SameLengths(fcResp[i].daily)) =>
            pc = "failed" /\ result = NoValue

ParisCommaFR == <<"P", "a", "r", "i", "s", ",", " ", "F", "R">>
ParisFR == <<"P", "a", "r", "i", "s", " ", "F", "R">>
ParisTwoSpacesFR == <<"P", "a", "r", "i", "s", " ", " ", "F", "R">>

\* C9, as claimed: "Paris, FR!!" is normalized to "Paris, FR" and the queries
\* tried, all answered empty, are "Paris, FR", "Paris", "Paris FR".
C9_AsClaimed ==
    origPlace = ExParisFR =>
        /\ Normalized => place = ParisCommaFR
        /\ (pc = "failed" /\ err.kind = "ValueError") =>
              tried = <<ParisCommaFR, ExParis, ParisFR>>

\* C9, amended: "Paris, FR!!" is normalized to itself and the queries tried, all
\* answered empty, are "Paris, FR!!", "Paris", "Paris  FR" (two spaces), in that
\* order, with no duplicates.
C9_ParisCandidates ==
    origPlace = ExParisFR =>
        /\ Normalized => place = ExParisFR
        /\ InGeocode => cleaned = ExParisFR
        /\ (pc = "failed" /\ err.kind = "ValueError") =>
              /\ tried = <<ExParisFR, ExParis, ParisTwoSpacesFR>>
              /\ \A i \in 1..3 : geoLog[i].name = tried[i] /\ IsEmpty(geoResp[i])
              /\ Len(geoLog) = 3

C9_Witness ==
    /\ origPlace = ExParisFR
    /\ pc = "failed"
    /\ err.kind = "ValueError"
    /\ Len(tried) = 3

\* C10: at most 3 lookups, never two requests outstanding, a lookup only after
\* the previous one was answered empty; at most one forecast request, only once
\* a location is resolved; a returned result comes with exactly one forecast
\* request and a failure without a location with none.
C10_NetworkBudget ==
    /\ Len(geoLog) <= 3
    /\ inflight \in {0, 1}
    /\ inflight = Len(geoLog) + Len(fcLog) - Len(geoResp) - Len(fcResp)
    /\ \A i \in 1..(Len(geoLog) - 1) : IsEmpty(geoResp[i])
    /\ Len(fcLog) <= 1
    /\ fcLog # <<>> =>
          /\ loc # NoValue
          /\ Len(geoResp) = Len(geoLog)
          /\ IsCoordinateText \/ (geoResp # <<>> /\ IsHit(geoResp[Len(geoResp)]))
    /\ pc = "done" => Len(fcLog) = 1 /\ Len(fcResp) = 1
    /\ (pc = "failed" /\ loc = NoValue) => fcLog = <<>>

C10_Witness ==
    /\ Len(geoLog) = 3
    /\ pc = "done"
    /\ Len(fcLog) = 1

====
